---- MODULE Spec2Model ----
(***************************************************************************)
(* Model of the wiki example application: the single-revision variant      *)
(* (wiki_step1/main.py) and the versioned variant                          *)
(* (trunk/wiki_step2/main.py).  Every HTTP request is a handler instance   *)
(* that runs its datastore calls one at a time; handlers of different      *)
(* requests interleave freely between datastore calls.                     *)
(***************************************************************************)
EXTENDS Integers, Sequences, FiniteSets, TLC

(* ---------------------------------------------------------------------- *)
(* Bounds                                                                  *)
(* ---------------------------------------------------------------------- *)
MaxReqs == 3

(* Handlers that run at the same time. *)
MaxActive == 2

Reqs == 1..MaxReqs

Apps == {"wiki_step1", "wiki_step2"}

Titles == {"StartPage", "OtherPage"}

(* None stands for Python's None returned by users.get_current_user(). *)
None == "None"

Identities == {"alice", "bob"}

Callers == Identities \cup {None}

(* Request bodies: the empty body and a wiki word. *)
Bodies == { <<>>, <<"W", "i", "k", "i", "W", "o", "r", "d">> }

(* Longest stored body the rendering specification views. *)
MaxBodyLen == 6

VARIABLES
  app,           \* which variant is deployed
  wikiPage,      \* step1: WikiPage entities, position = datastore key
  wikiContent,   \* step2: WikiContent entities, position = datastore key
  wikiRevision,  \* step2: WikiRevision entities, position = datastore key
  wikiUser,      \* step2: WikiUser entities, position = datastore key
  clock,         \* the datastore's time, read for WikiRevision.created
  pc,            \* per request: the datastore call the handler is about to make
  request,       \* per request: handler kind, page_title, posted body, signed-in user
  local,         \* per request: the handler's local variables
  response       \* per request: status, Location header, template written

vars == <<app, wikiPage, wikiContent, wikiRevision, wikiUser, clock,
          pc, request, local, response>>

store == <<wikiPage, wikiContent, wikiRevision, wikiUser>>

(* ---------------------------------------------------------------------- *)
(* Characters and the wiki word pattern                                    *)
(* ---------------------------------------------------------------------- *)
Upper == {"W", "A", "B"}
Lower == {"i", "k", "o", "r", "d", "a", "b"}
Digit == {"1", "2"}
Letter == Upper \cup Lower
WordChar == Letter \cup Digit \cup {"_"}

(* \b at the gap before position i (1-based): exactly one side is \w. *)
WordBoundary(s, i) ==
  LET before == i > 1 /\ i - 1 <= Len(s) /\ s[i - 1] \in WordChar
      after  == i >= 1 /\ i <= Len(s) /\ s[i] \in WordChar
  IN before # after

(* End of the longest run of characters of class cls starting at i,        *)
(* i - 1 when the run is empty.                                            *)
RECURSIVE RunEnd(_, _, _)
RunEnd(s, i, cls) ==
  IF i <= Len(s) /\ s[i] \in cls THEN RunEnd(s, i + 1, cls) ELSE i - 1

(* The pattern \b([A-Z][a-z]+[A-Z][a-z]+)\b: lowercase letters only after  *)
(* the second capital.                                                     *)
WikiWordEndLowerTail(s, i) ==
  IF ~(i <= Len(s) /\ s[i] \in Upper /\ WordBoundary(s, i)) THEN 0
  ELSE LET l == RunEnd(s, i + 1, Lower)
       IN IF l < i + 1 THEN 0
          ELSE IF ~(l + 1 <= Len(s) /\ s[l + 1] \in Upper) THEN 0
          ELSE LET e == RunEnd(s, l + 2, Lower)
               IN IF e < l + 2 THEN 0
                  ELSE IF WordBoundary(s, e + 1) THEN e ELSE 0

(* The pattern \b([A-Z][a-z]+)\b: any capitalized word. *)
WikiWordEndSingle(s, i) ==
  IF ~(i <= Len(s) /\ s[i] \in Upper /\ WordBoundary(s, i)) THEN 0
  ELSE LET l == RunEnd(s, i + 1, Lower)
       IN IF l < i + 1 THEN 0
          ELSE IF WordBoundary(s, l + 1) THEN l ELSE 0

(* Last position of the match of _WIKI_WORD that starts at i, 0 if none.   *)
(* The greedy runs cannot give characters back: a shorter [a-z]+ is        *)
(* followed by a lowercase letter, a shorter [A-Za-z]+ ends between two    *)
(* letters where \b fails.                                                 *)
WikiWordEnd(s, i) ==
  IF ~(i <= Len(s) /\ s[i] \in Upper /\ WordBoundary(s, i)) THEN 0
  ELSE LET l == RunEnd(s, i + 1, Lower)
       IN IF l < i + 1 THEN 0
          ELSE IF ~(l + 1 <= Len(s) /\ s[l + 1] \in Upper) THEN 0
          ELSE LET e == RunEnd(s, l + 2, Letter)
               IN IF e < l + 2 THEN 0
                  ELSE IF WordBoundary(s, e + 1) THEN e ELSE 0

(* The replacement r'<a href="/view/\1">\1</a>' (step1 writes '" >'). *)
WikiLink(open, word) ==
  <<"<a href=\"/view/">> \o word \o <<open>> \o word \o <<"</a>">>

(* _WIKI_WORD.subn(replacement, body): leftmost non-overlapping matches. *)
RECURSIVE WikiWordSubFrom(_, _, _)
WikiWordSubFrom(s, i, open) ==
  IF i > Len(s) THEN <<>>
  ELSE LET e == WikiWordEnd(s, i)
       IN IF e > 0
          THEN WikiLink(open, SubSeq(s, i, e)) \o WikiWordSubFrom(s, e + 1, open)
          ELSE <<s[i]>> \o WikiWordSubFrom(s, i + 1, open)

WikiWordSub(s, open) == WikiWordSubFrom(s, 1, open)

(* markdown.markdown(text) on one line of text without markup characters:  *)
(* nothing for the empty text, one paragraph otherwise.                    *)
Markdown(text) ==
  IF text = <<>> THEN <<>> ELSE <<"<p>">> \o text \o <<"</p>">>

(* ---------------------------------------------------------------------- *)
(* users API and URLs                                                      *)
(* ---------------------------------------------------------------------- *)
ViewPath(title) == <<"/view/", title>>
EditPath(title) == <<"/edit/", title>>
SavePath(title) == <<"/save/", title>>

RequestPath(q) ==
  CASE q.kind = "view" -> ViewPath(q.title)
    [] q.kind = "edit" -> EditPath(q.title)
    [] OTHER -> SavePath(q.title)

LoginUrl(dest) == <<"login">> \o dest
LogoutUrl(dest) == <<"logout">> \o dest

Nickname(u) == u

(* urllib.quote(user.email()) *)
QuotedEmail(u) ==
  CASE u = "alice" -> "alice%40example.com"
    [] u = "bob" -> "bob%40example.com"

(* ---------------------------------------------------------------------- *)
(* Requests, locals and responses                                          *)
(* ---------------------------------------------------------------------- *)
NoRequest == [kind |-> "none", title |-> "", body |-> <<>>, user |-> None]

NoLocal == [entry |-> 0, wiki_user |-> 0, version_number |-> 0]

NoResponse == [status |-> 0, location |-> <<>>, template |-> "", values |-> <<>>]

(* webapp.RequestHandler.redirect: status 302, Location, body cleared. *)
Redirect(resp, uri) ==
  [resp EXCEPT !.status = 302, !.location = uri, !.template = "", !.values = <<>>]

(* An uncaught exception: webapp answers 500 and clears the body. *)
ServerError(resp) ==
  [resp EXCEPT !.status = 500, !.template = "", !.values = <<>>]

(* BaseRequestHandler.generate: the login/logout URL and the user are      *)
(* added to the template values and the template is written to the         *)
(* response; a status set earlier stays.                                   *)
Generate(resp, q, template_name, template_values) ==
  LET log_in_out_url == IF q.user # None
                        THEN LogoutUrl(ViewPath("StartPage"))
                        ELSE LoginUrl(RequestPath(q))
  IN [resp EXCEPT !.status = IF resp.status = 0 THEN 200 ELSE resp.status,
                  !.template = template_name,
                  !.values = [user |-> q.user,
                              log_in_out_url |-> log_in_out_url,
                              page |-> template_values]]

(* ---------------------------------------------------------------------- *)
(* Datastore queries                                                       *)
(* ---------------------------------------------------------------------- *)
Keys(kind) == 1..Len(kind)

(* WikiPage.gql('WHERE title = :1', page_title): the matching keys. *)
QueryPage(title) == {k \in Keys(wikiPage) : wikiPage[k].title = title}

(* WikiContent.gql('WHERE title = :1', page_title): the matching keys. *)
QueryContent(title) == {k \in Keys(wikiContent) : wikiContent[k].title = title}

(* WikiUser.gql('WHERE wiki_user = :1', user): the matching keys. *)
QueryUser(user) == {k \in Keys(wikiUser) : wikiUser[k].wiki_user = user}

(* WikiRevision.gql('WHERE wiki_page = :1 ORDER BY version_number DESC',   *)
(* entry): the keys that can come first in the result.                     *)
QueryCurrentRevision(entry) ==
  LET of == {k \in Keys(wikiRevision) : wikiRevision[k].wiki_page = entry}
  IN {k \in of : \A j \in of :
        wikiRevision[j].version_number <= wikiRevision[k].version_number}

(* Query.get(): the first result, key 0 (None) when there is none. *)
Get(result) == IF result = {} THEN {0} ELSE result

Init ==
  /\ app \in Apps
  /\ wikiPage = <<>>
  /\ wikiContent = <<>>
  /\ wikiRevision = <<>>
  /\ wikiUser = <<>>
  /\ clock = 0
  /\ pc = [r \in Reqs |-> "idle"]
  /\ request = [r \in Reqs |-> NoRequest]
  /\ local = [r \in Reqs |-> NoLocal]
  /\ response = [r \in Reqs |-> NoResponse]

(* ---------------------------------------------------------------------- *)
(* Handler steps common to both variants                                   *)
(* ---------------------------------------------------------------------- *)
Finish(r, resp) ==
  /\ pc' = [pc EXCEPT ![r] = "done"]
  /\ response' = [response EXCEPT ![r] = resp]

Continue(r, resp, label) ==
  /\ pc' = [pc EXCEPT ![r] = label]
  /\ response' = [response EXCEPT ![r] = resp]

(* The handler's opening lines: users.get_current_user() and, in Edit and  *)
(* Save, the redirect to the login page when nobody is signed in.  The     *)
(* redirect does not end the handler.                                      *)
SignInCheck(q) ==
  IF q.kind \in {"edit", "save"} /\ q.user = None
  THEN Redirect(NoResponse, LoginUrl(EditPath(q.title)))
  ELSE NoResponse

Running == {r \in Reqs : pc[r] \notin {"idle", "done", "closed"}}

(* The requests the URL map routes to a handler; only a Save posts a body. *)
Requests(kind) ==
  {[kind |-> kind, title |-> title, body |-> body, user |-> user] :
     title \in Titles,
     body \in IF kind = "save" THEN Bodies ELSE {<<>>},
     user \in Callers}

(* A request can arrive and get handler r; requests are numbered in        *)
(* arrival order.  A handler runs from the arrival through its first       *)
(* datastore call in one step: the lines before that call touch nothing    *)
(* shared.                                                                 *)
Free(r) ==
  /\ pc[r] = "idle"
  /\ r > 1 => pc[r - 1] # "idle"
  /\ Cardinality(Running) < MaxActive

Arrives(r, q) == request' = [request EXCEPT ![r] = q]

(* The response is sent and the handler instance is discarded: nothing of  *)
(* a request outlives it but what it wrote to the datastore.               *)
Deliver(r) ==
  /\ pc[r] = "done"
  /\ pc' = [pc EXCEPT ![r] = "closed"]
  /\ request' = [request EXCEPT ![r] = NoRequest]
  /\ local' = [local EXCEPT ![r] = NoLocal]
  /\ response' = [response EXCEPT ![r] = NoResponse]
  /\ UNCHANGED <<app, store, clock>>

(* ---------------------------------------------------------------------- *)
(* wiki_step1                                                              *)
(* ---------------------------------------------------------------------- *)
(* ViewHandler.get: the template values for the entry found (key 0: none). *)
ViewValues1(title, k) ==
  IF k # 0 /\ wikiPage[k].body # <<>>
  THEN [page_title |-> title,
        body |-> Markdown(WikiWordSub(wikiPage[k].body, "\" >")),
        author |-> wikiPage[k].author]
  ELSE [page_title |-> title, body |-> <<>>, author |-> ""]

(* The view that creates the page it does not find. *)
View1GetOrInsert(r) ==
  /\ app = "wiki_step1" /\ Free(r)
  /\ \E q \in Requests("view") :
       /\ Arrives(r, q)
       /\ \E k \in Get(QueryPage(q.title)) :
            /\ wikiPage' = IF k = 0
                           THEN Append(wikiPage, [title |-> q.title, body |-> <<>>,
                                                  author |-> q.user])
                           ELSE wikiPage
            /\ Finish(r, Generate(SignInCheck(q), q, "view.html",
                                  ViewValues1(q.title, k)))
  /\ UNCHANGED <<app, wikiContent, wikiRevision, wikiUser, clock, local>>

View1(r) ==
  /\ app = "wiki_step1" /\ Free(r)
  /\ \E q \in Requests("view") :
       /\ Arrives(r, q)
       /\ \E k \in Get(QueryPage(q.title)) :
            Finish(r, Generate(SignInCheck(q), q, "view.html",
                               ViewValues1(q.title, k)))
  /\ UNCHANGED <<app, store, clock, local>>

(* EditHandler.get: the template values, the entry as fetched (key 0:     *)
(* None, written here as the empty tuple).                                 *)
EditValues1(title, k) ==
  [page_title |-> title, entry |-> IF k = 0 THEN <<>> ELSE <<wikiPage[k]>>]

Edit1(r) ==
  /\ app = "wiki_step1" /\ Free(r)
  /\ \E q \in Requests("edit") :
       /\ Arrives(r, q)
       /\ \E k \in Get(QueryPage(q.title)) :
            Finish(r, Generate(SignInCheck(q), q, "edit.html",
                               EditValues1(q.title, k)))
  /\ UNCHANGED <<app, store, clock, local>>

Save1Query(r) ==
  /\ app = "wiki_step1" /\ Free(r)
  /\ \E q \in Requests("save") :
       /\ Arrives(r, q)
       /\ \E k \in Get(QueryPage(q.title)) :
            local' = [local EXCEPT ![r].entry = k]
       /\ Continue(r, SignInCheck(q), "put_entry")
  /\ UNCHANGED <<app, store, clock>>

(* The entity SaveHandler.post puts: the fetched entry with body and       *)
(* author overwritten, or a new WikiPage.                                  *)
SavedPage(q) == [title |-> q.title, body |-> q.body, author |-> q.user]

(* The put that always stores a new entity. *)
PutPageAlwaysNew(pages, k, entity) == Append(pages, entity)

PutPage(pages, k, entity) ==
  IF k # 0 THEN [pages EXCEPT ![k] = entity] ELSE Append(pages, entity)

Save1Put(r) ==
  /\ app = "wiki_step1" /\ pc[r] = "put_entry"
  /\ \/ /\ wikiPage' = PutPage(wikiPage, local[r].entry, SavedPage(request[r]))
        /\ Finish(r, Redirect(response[r], ViewPath(request[r].title)))
     \/ /\ UNCHANGED wikiPage
        /\ Finish(r, ServerError(response[r]))
  /\ UNCHANGED <<app, wikiContent, wikiRevision, wikiUser, clock, request, local>>

(* ---------------------------------------------------------------------- *)
(* wiki_step2                                                              *)
(* ---------------------------------------------------------------------- *)
EmptyView(title) ==
  [page_title |-> title, body |-> <<>>, author |-> "", author_email |-> "",
   version |-> "", version_date |-> ""]

(* The test left out: the attributes of the current version are read      *)
(* whatever the query returned.                                            *)
ViewFoundAlways(k) == TRUE

(* "if entry:" in ViewHandler.get *)
ViewFound(k) == k # 0

View2Entry(r) ==
  /\ app = "wiki_step2" /\ Free(r)
  /\ \E q \in Requests("view") :
       /\ Arrives(r, q)
       /\ \E k \in Get(QueryContent(q.title)) :
            IF ViewFound(k)
            THEN /\ local' = [local EXCEPT ![r].entry = k]
                 /\ Continue(r, SignInCheck(q), "query_revision")
            ELSE /\ UNCHANGED local
                 /\ Finish(r, Generate(SignInCheck(q), q, "view.html",
                                       EmptyView(q.title)))
  /\ UNCHANGED <<app, store, clock>>

(* ViewHandler.get, lines 127-136: the attributes read from the current    *)
(* version.  They raise AttributeError when the query found no revision    *)
(* (v = 0) or when the author's profile holds no user.                     *)
ViewRaises(v) ==
  \/ v = 0
  \/ wikiUser[wikiRevision[v].author].wiki_user = None

ViewValues2(title, v) ==
  LET current_version == wikiRevision[v]
      user == wikiUser[current_version.author].wiki_user
  IN [page_title |-> title,
      body |-> Markdown(WikiWordSub(current_version.revision_body, "\">")),
      author |-> Nickname(user),
      author_email |-> QuotedEmail(user),
      version |-> ToString(current_version.version_number),
      version_date |-> ToString(current_version.created)]

View2Revision(r) ==
  /\ app = "wiki_step2" /\ pc[r] = "query_revision" /\ request[r].kind = "view"
  /\ \E v \in Get(QueryCurrentRevision(local[r].entry)) :
       IF ViewRaises(v)
       THEN Finish(r, ServerError(response[r]))
       ELSE Finish(r, Generate(response[r], request[r], "view.html",
                               ViewValues2(request[r].title, v)))
  /\ UNCHANGED <<app, store, clock, request, local>>

Edit2Entry(r) ==
  /\ app = "wiki_step2" /\ Free(r)
  /\ \E q \in Requests("edit") :
       /\ Arrives(r, q)
       /\ \E k \in Get(QueryContent(q.title)) :
            local' = [local EXCEPT ![r].entry = k]
       /\ Continue(r, SignInCheck(q), "query_revision")
  /\ UNCHANGED <<app, store, clock>>

(* The edit form given the body as the view shows it. *)
EditValues2Rendered(title, v) ==
  [page_title |-> title,
   current_version |->
     IF v = 0 THEN <<>>
     ELSE <<[wikiRevision[v] EXCEPT
               !.revision_body = Markdown(WikiWordSub(@, "\">"))]>>]

(* EditHandler.get: the template values, the current version as fetched   *)
(* (key 0: None, written here as the empty tuple).                         *)
EditValues2(title, v) ==
  [page_title |-> title,
   current_version |-> IF v = 0 THEN <<>> ELSE <<wikiRevision[v]>>]

Edit2Revision(r) ==
  /\ app = "wiki_step2" /\ pc[r] = "query_revision" /\ request[r].kind = "edit"
  /\ \E v \in Get(QueryCurrentRevision(local[r].entry)) :
       Finish(r, Generate(response[r], request[r], "edit.html",
                          EditValues2(request[r].title, v)))
  /\ UNCHANGED <<app, store, clock, request, local>>

Save2UserQuery(r) ==
  /\ app = "wiki_step2" /\ Free(r)
  /\ \E q \in Requests("save") :
       /\ Arrives(r, q)
       /\ \E u \in Get(QueryUser(q.user)) :
            /\ local' = [local EXCEPT ![r].wiki_user = u]
            /\ Continue(r, SignInCheck(q),
                        IF u = 0 THEN "put_user" ELSE "query_entry")
  /\ UNCHANGED <<app, store, clock>>

Save2UserPut(r) ==
  /\ app = "wiki_step2" /\ pc[r] = "put_user"
  /\ \/ /\ wikiUser' = Append(wikiUser, [wiki_user |-> request[r].user])
        /\ local' = [local EXCEPT ![r].wiki_user = Len(wikiUser) + 1]
        /\ Continue(r, response[r], "query_entry")
     \/ /\ UNCHANGED <<wikiUser, local>>
        /\ Finish(r, ServerError(response[r]))
  /\ UNCHANGED <<app, wikiPage, wikiContent, wikiRevision, clock, request>>

Save2EntryQuery(r) ==
  /\ app = "wiki_step2" /\ pc[r] = "query_entry"
  /\ \E k \in Get(QueryContent(request[r].title)) :
       /\ local' = [local EXCEPT ![r].entry = k]
       /\ Continue(r, response[r],
                   IF k # 0 THEN "query_revision" ELSE "put_entry")
  /\ UNCHANGED <<app, store, clock, request>>

(* The increment by two. *)
NewVersionNumberSkip(latest_version) == latest_version.version_number + 2

(* The increment left out. *)
NewVersionNumberSame(latest_version) == latest_version.version_number

(* version_number = latest_version.version_number + 1 *)
NewVersionNumber(latest_version) == latest_version.version_number + 1

Save2LatestQuery(r) ==
  /\ app = "wiki_step2" /\ pc[r] = "query_revision" /\ request[r].kind = "save"
  /\ \E v \in Get(QueryCurrentRevision(local[r].entry)) :
       IF v = 0
       THEN /\ UNCHANGED local
            /\ Finish(r, ServerError(response[r]))
       ELSE /\ local' = [local EXCEPT
                           ![r].version_number = NewVersionNumber(wikiRevision[v])]
            /\ Continue(r, response[r], "put_revision")
  /\ UNCHANGED <<app, store, clock, request>>

Save2EntryPut(r) ==
  /\ app = "wiki_step2" /\ pc[r] = "put_entry"
  /\ \/ /\ wikiContent' = Append(wikiContent, [title |-> request[r].title])
        /\ local' = [local EXCEPT ![r].entry = Len(wikiContent) + 1,
                                  ![r].version_number = 1]
        /\ Continue(r, response[r], "put_revision")
     \/ /\ UNCHANGED <<wikiContent, local>>
        /\ Finish(r, ServerError(response[r]))
  /\ UNCHANGED <<app, wikiPage, wikiRevision, wikiUser, clock, request>>

(* WikiRevision(version_number=..., revision_body=body, author=wiki_user,  *)
(* wiki_page=entry); created is set by the datastore at put time.          *)
NewRevision(q, l, now) ==
  [wiki_page |-> l.entry, version_number |-> l.version_number,
   revision_body |-> q.body, author |-> l.wiki_user, created |-> now]

(* The put that writes over the latest revision. *)
PutRevisionInPlace(revisions, version) ==
  IF revisions = <<>> THEN <<version>>
  ELSE [revisions EXCEPT ![Len(revisions)] = version]

(* version.put() of a new entity. *)
PutRevision(revisions, version) == Append(revisions, version)

Save2RevisionPut(r) ==
  /\ app = "wiki_step2" /\ pc[r] = "put_revision"
  /\ \/ /\ wikiRevision' = PutRevision(wikiRevision,
                                       NewRevision(request[r], local[r], clock))
        /\ clock' = clock + 1
        /\ Finish(r, Redirect(response[r], ViewPath(request[r].title)))
     \/ /\ UNCHANGED <<wikiRevision, clock>>
        /\ Finish(r, ServerError(response[r]))
  /\ UNCHANGED <<app, wikiPage, wikiContent, wikiUser, request, local>>

(* ---------------------------------------------------------------------- *)
(* Specifications                                                          *)
(* ---------------------------------------------------------------------- *)
(* A handler that has returned sends its response before any other        *)
(* handler takes its next step: sending touches no shared state, so no     *)
(* behaviour of the store is lost.                                         *)
AllSent == \A r \in Reqs : pc[r] # "done"

Next ==
  \E r \in Reqs :
    \/ Deliver(r)
    \/ AllSent /\ View1(r)
    \/ AllSent /\ Edit1(r)
    \/ AllSent /\ Save1Query(r)
    \/ AllSent /\ Save1Put(r)
    \/ AllSent /\ View2Entry(r)
    \/ AllSent /\ View2Revision(r)
    \/ AllSent /\ Edit2Entry(r)
    \/ AllSent /\ Edit2Revision(r)
    \/ AllSent /\ Save2UserQuery(r)
    \/ AllSent /\ Save2UserPut(r)
    \/ AllSent /\ Save2EntryQuery(r)
    \/ AllSent /\ Save2LatestQuery(r)
    \/ AllSent /\ Save2EntryPut(r)
    \/ AllSent /\ Save2RevisionPut(r)

Spec == Init /\ [][Next]_vars

(* Requests served one after the other: a request arrives only when no     *)
(* handler is running.  Responses may stay on record for any time.         *)
NoneRunning == Running = {}

NextSeq ==
  \E r \in Reqs :
    \/ Deliver(r)
    \/ NoneRunning /\ View1(r)
    \/ NoneRunning /\ Edit1(r)
    \/ NoneRunning /\ Save1Query(r)
    \/ NoneRunning /\ View2Entry(r)
    \/ NoneRunning /\ Edit2Entry(r)
    \/ NoneRunning /\ Save2UserQuery(r)
    \/ Save1Put(r)
    \/ View2Revision(r) \/ Edit2Revision(r)
    \/ Save2UserPut(r) \/ Save2EntryQuery(r)
    \/ Save2LatestQuery(r) \/ Save2EntryPut(r) \/ Save2RevisionPut(r)

SpecSeq == Init /\ [][NextSeq]_vars

(* Rendering: the store holds StartPage as one Save of alice left it, the  *)
(* body any text of at most MaxBodyLen characters out of a capital, a      *)
(* lowercase letter, a digit and a comma, and one request views it.        *)
RenderChars == {"W", "i", "1", ","}

RenderBodies == UNION {[1..n -> RenderChars] : n \in 0..MaxBodyLen}

InitRender ==
  /\ app \in Apps
  /\ \E body \in RenderBodies :
       LET q == [kind |-> "save", title |-> "StartPage", body |-> body,
                 user |-> "alice"]
           l == [entry |-> 1, wiki_user |-> 1, version_number |-> 1]
       IN IF app = "wiki_step1"
          THEN /\ wikiPage = PutPage(<<>>, 0, SavedPage(q))
               /\ wikiContent = <<>>
               /\ wikiRevision = <<>>
               /\ wikiUser = <<>>
               /\ clock = 0
          ELSE /\ wikiPage = <<>>
               /\ wikiContent = <<[title |-> q.title]>>
               /\ wikiRevision = PutRevision(<<>>, NewRevision(q, l, 0))
               /\ wikiUser = <<[wiki_user |-> q.user]>>
               /\ clock = 1
  /\ pc = [r \in Reqs |-> "idle"]
  /\ request = [r \in Reqs |-> NoRequest]
  /\ local = [r \in Reqs |-> NoLocal]
  /\ response = [r \in Reqs |-> NoResponse]

NextRender ==
  \/ View1(1)
  \/ View2Entry(1)
  \/ View2Revision(1)
  \/ Deliver(1)

SpecRender == InitRender /\ [][NextRender]_vars

(* ---------------------------------------------------------------------- *)
(* Properties                                                              *)
(* ---------------------------------------------------------------------- *)
RevisionsOf(k) == {v \in Keys(wikiRevision) : wikiRevision[v].wiki_page = k}

RevisionsOfTitle(t) ==
  {v \in Keys(wikiRevision) : wikiRevision[v].wiki_page \in QueryContent(t)}

VersionsOfTitle(t) == {wikiRevision[v].version_number : v \in RevisionsOfTitle(t)}

(* The version numbers View and Edit can resolve as current for a title. *)
CurrentVersionsOfTitle(t) ==
  {wikiRevision[v].version_number :
     v \in UNION {QueryCurrentRevision(k) : k \in QueryContent(t)}}

(* Saves of a title that ran to their last line, response still on record. *)
CompletedSaves(t) ==
  {r \in Reqs : /\ pc[r] = "done"
                /\ request[r].kind = "save"
                /\ request[r].title = t
                /\ response[r].status = 302
                /\ response[r].location = ViewPath(t)}

NoPage(t) ==
  IF app = "wiki_step1" THEN QueryPage(t) = {} ELSE QueryContent(t) = {}

(* Everything in the store was written for a signed-in user: the states    *)
(* that owe nothing to a Save made without signing in.                     *)
SignedInWritesOnly ==
  /\ \A k \in Keys(wikiPage) : wikiPage[k].author \in Identities
  /\ \A u \in Keys(wikiUser) : wikiUser[u].wiki_user \in Identities

(* C1: versioned variant, under every interleaving of concurrent Saves of  *)
(* signed-in users no reachable state holds two revisions of the same page *)
(* with the same version number.                                           *)
C1_NoDuplicateVersion ==
  SignedInWritesOnly =>
    \A v, w \in Keys(wikiRevision) :
      (v # w /\ wikiRevision[v].wiki_page = wikiRevision[w].wiki_page)
        => wikiRevision[v].version_number # wikiRevision[w].version_number

(* C2: versioned variant, requests served one after the other from an      *)
(* empty store: after N completed Saves of a title its revisions carry     *)
(* exactly the version numbers 1..N, one revision each, and the revision   *)
(* View and Edit resolve as current has version number N.                  *)
C2_SequentialVersions ==
  (app = "wiki_step2" /\ \A r \in Reqs : pc[r] # "closed") =>
    \A t \in Titles :
      LET N == Cardinality(CompletedSaves(t))
      IN /\ Cardinality(RevisionsOfTitle(t)) = N
         /\ VersionsOfTitle(t) = 1..N
         /\ Cardinality(QueryContent(t)) <= 1
         /\ N > 0 => CurrentVersionsOfTitle(t) = {N}

(* Three authenticated Saves of one title have completed in a row. *)
C2_Witness ==
  /\ app = "wiki_step2"
  /\ \A r \in Reqs : pc[r] # "closed"
  /\ \E t \in Titles :
       /\ Cardinality(CompletedSaves(t)) = 3
       /\ \A r \in CompletedSaves(t) : request[r].user \in Identities
       /\ VersionsOfTitle(t) = {1, 2, 3}

(* C3: in both variants a Save with no signed-in user answers with the     *)
(* redirect to the login page and changes nothing in the store: no step of *)
(* its handler creates or modifies a Page, a Revision or a User profile.   *)
C3_AnonymousSaveChangesNothing ==
  [][\A r \in Reqs :
       (request'[r].kind = "save" /\ request'[r].user = None /\ pc'[r] # pc[r])
         => /\ store' = store
            /\ pc'[r] = "done" =>
                 response'[r] = Redirect(NoResponse,
                                         LoginUrl(EditPath(request'[r].title)))]_vars

(* C4: versioned variant, a Save that fails leaves no partial state: when  *)
(* a signed-in user's Save has ended in an error, the Page record it       *)
(* created does not sit in the store with zero revisions.                  *)
C4_FailedSaveLeavesNoOrphan ==
  \A r \in Reqs :
    ( /\ app = "wiki_step2"
      /\ SignedInWritesOnly
      /\ request[r].user \in Identities
      /\ pc[r] = "done"
      /\ request[r].kind = "save"
      /\ response[r].status = 500
      /\ local[r].entry # 0
      /\ local[r].version_number = 1 )
      => RevisionsOf(local[r].entry) # {}

(* C5: versioned variant, a View of a title whose Page record exists with  *)
(* zero revisions (left so by a signed-in user's Save) returns the         *)
(* empty-state result with all display fields blank, never an error.       *)
C5_ViewOfPageWithoutRevisionIsEmpty ==
  \A r \in Reqs :
    ( /\ app = "wiki_step2"
      /\ SignedInWritesOnly
      /\ pc[r] = "done"
      /\ request[r].kind = "view"
      /\ local[r].entry # 0
      /\ RevisionsOf(local[r].entry) = {} )
      => /\ response[r].status = 200
         /\ response[r].template = "view.html"
         /\ response[r].values.page.body = <<>>
         /\ response[r].values.page.author = ""
         /\ response[r].values.page.author_email = ""
         /\ response[r].values.page.version = ""
         /\ response[r].values.page.version_date = ""

(* C6: in both variants a View of a title for which the store holds no     *)
(* Page answers normally with the empty-state result (body and author, and *)
(* in the versioned variant version and date, all blank), whoever the      *)
(* caller is.                                                              *)
C6_ViewOfMissingPageIsEmpty ==
  \A r \in Reqs :
    (pc[r] = "done" /\ request[r].kind = "view" /\ NoPage(request[r].title))
      => /\ response[r].status = 200
         /\ response[r].location = <<>>
         /\ response[r].template = "view.html"
         /\ response[r].values.page.page_title = request[r].title
         /\ response[r].values.page.body = <<>>
         /\ response[r].values.page.author = ""
         /\ app = "wiki_step2" =>
              /\ response[r].values.page.author_email = ""
              /\ response[r].values.page.version = ""
              /\ response[r].values.page.version_date = ""

(* A signed-in caller has viewed a missing title of the versioned wiki     *)
(* while another title has a page.                                         *)
C6_Witness ==
  \E r \in Reqs :
    /\ app = "wiki_step2"
    /\ pc[r] = "done"
    /\ request[r].kind = "view"
    /\ request[r].user \in Identities
    /\ NoPage(request[r].title)
    /\ wikiContent # <<>>
    /\ response[r].status = 200

(* C7: versioned variant, revisions are immutable and append-only: no step *)
(* of any Save, View or Edit changes the version number, body, author,     *)
(* owning page or creation time of a revision in the store, or removes it. *)
C7_RevisionsImmutable ==
  [][\A v \in Keys(wikiRevision) :
       /\ v \in Keys(wikiRevision')
       /\ wikiRevision'[v] = wikiRevision[v]]_vars

(* Two Saves of one title with different bodies by different identities    *)
(* have both left their revision in the store.                             *)
C7_Witness ==
  \E v, w \in Keys(wikiRevision) :
    /\ wikiRevision[v].wiki_page = wikiRevision[w].wiki_page
    /\ wikiRevision[v].version_number = 1
    /\ wikiRevision[w].version_number = 2
    /\ wikiRevision[v].revision_body # wikiRevision[w].revision_body
    /\ wikiUser[wikiRevision[v].author].wiki_user \in Identities
    /\ wikiUser[wikiRevision[w].author].wiki_user \in Identities
    /\ wikiUser[wikiRevision[v].author].wiki_user
         # wikiUser[wikiRevision[w].author].wiki_user

(* C8: single-revision variant, requests served one after the other: after *)
(* a completed Save of a title that no later Save of the title follows,    *)
(* the store holds one Page for the title and its body and author are      *)
(* exactly those of that Save, so Edit and View see nothing of an earlier  *)
(* Save.                                                                   *)
C8_LastSaveOverwrites ==
  app = "wiki_step1" =>
    \A t \in Titles : \A r \in CompletedSaves(t) :
      (\A l \in Reqs : l > r => (pc[l] # "closed" /\ l \notin CompletedSaves(t)))
        => \E k \in Keys(wikiPage) :
             /\ QueryPage(t) = {k}
             /\ wikiPage[k].body = request[r].body
             /\ wikiPage[k].author = request[r].user

(* Two authenticated Saves of one title, different bodies and identities,  *)
(* have completed in a row and the page carries the second one's.          *)
C8_Witness ==
  /\ app = "wiki_step1"
  /\ \E t \in Titles : \E r1, r2 \in CompletedSaves(t) :
       /\ r1 < r2
       /\ \A l \in Reqs : l > r1 => pc[l] # "closed"
       /\ request[r1].user \in Identities
       /\ request[r2].user \in Identities
       /\ request[r1].user # request[r2].user
       /\ request[r1].body # request[r2].body
       /\ \E k \in QueryPage(t) : wikiPage[k].body = request[r2].body

(* C9: in both variants every reachable state holds at most one Page       *)
(* record per title, also after concurrent Saves by signed-in users of a   *)
(* title that did not exist.                                               *)
C9_OnePagePerTitle ==
  SignedInWritesOnly =>
    \A t \in Titles :
      /\ Cardinality(QueryPage(t)) <= 1
      /\ Cardinality(QueryContent(t)) <= 1

(* C10: versioned variant, the version number a Save gives its revision is *)
(* the current revision's version number, or 0 when the page has none,     *)
(* plus 1: a signed-in user's Save that has read the latest revision of an *)
(* existing Page goes on to write with that number and does not fail, also *)
(* when the Page has zero revisions.                                       *)
C10_NextVersionNumber ==
  [][\A r \in Reqs :
       ( /\ app = "wiki_step2"
         /\ SignedInWritesOnly
         /\ request[r].kind = "save"
         /\ request[r].user \in Identities
         /\ pc[r] = "query_revision"
         /\ pc'[r] # pc[r] )
         => /\ pc'[r] = "put_revision"
            /\ \E n \in IF RevisionsOf(local[r].entry) = {} THEN {0}
                        ELSE {wikiRevision[v].version_number :
                                v \in QueryCurrentRevision(local[r].entry)} :
                 local'[r].version_number = n + 1]_vars

(* C11: versioned variant, a signed-in user's Save never completes         *)
(* successfully (redirect to the page's view) having written a version     *)
(* number that collides with another revision of the same page: a          *)
(* collision is retried or reported as a failure.                          *)
C11_NoSuccessfulCollidingSave ==
  \A r \in Reqs :
    ( /\ app = "wiki_step2"
      /\ SignedInWritesOnly
      /\ request[r].user \in Identities
      /\ r \in CompletedSaves(request[r].title) )
      => Cardinality({v \in RevisionsOf(local[r].entry) :
                        wikiRevision[v].version_number = local[r].version_number})
           = 1

(* C12: in both variants an Edit with no signed-in user answers with the   *)
(* redirect to the login page only: the finished response carries no edit  *)
(* form.                                                                   *)
C12_AnonymousEditRedirectsOnly ==
  \A r \in Reqs :
    (pc[r] = "done" /\ request[r].kind = "edit" /\ request[r].user = None)
      => response[r] = Redirect(NoResponse, LoginUrl(EditPath(request[r].title)))

(* C13: a signed-in user's Edit answers normally with the edit form.  For  *)
(* an existing title the form holds the stored entity as it is, body       *)
(* unrendered and author included: in the single-revision variant the      *)
(* Page of the title, in the versioned variant a revision of the page with *)
(* the maximum version number.  For a title with no Page the form is       *)
(* empty.                                                                  *)
C13_EditReturnsRawBody ==
  \A r \in Reqs :
    (pc[r] = "done" /\ request[r].kind = "edit" /\ request[r].user \in Identities)
      => LET t == request[r].title
             form == response[r].values.page
         IN /\ response[r].status = 200
            /\ response[r].location = <<>>
            /\ response[r].template = "edit.html"
            /\ form.page_title = t
            /\ app = "wiki_step1" =>
                 IF NoPage(t) THEN form.entry = <<>>
                 ELSE \E k \in Keys(wikiPage) :
                        /\ wikiPage[k].title = t
                        /\ form.entry = <<wikiPage[k]>>
            /\ app = "wiki_step2" =>
                 /\ NoPage(t) => form.current_version = <<>>
                 /\ RevisionsOf(local[r].entry) # {} =>
                      \E v \in RevisionsOf(local[r].entry) :
                        /\ wikiContent[local[r].entry].title = t
                        /\ \A w \in RevisionsOf(local[r].entry) :
                             wikiRevision[w].version_number
                               <= wikiRevision[v].version_number
                        /\ form.current_version = <<wikiRevision[v]>>
                        /\ wikiRevision[v].author \in Keys(wikiUser)

(* A signed-in user edits a page of the versioned wiki that has two        *)
(* revisions: the form holds the second one, its body a wiki word as       *)
(* typed.                                                                  *)
C13_Witness ==
  \E r \in Reqs :
    /\ app = "wiki_step2"
    /\ pc[r] = "done"
    /\ request[r].kind = "edit"
    /\ request[r].user \in Identities
    /\ Cardinality(RevisionsOf(local[r].entry)) = 2
    /\ response[r].values.page.current_version # <<>>
    /\ response[r].values.page.current_version[1].version_number = 2
    /\ response[r].values.page.current_version[1].revision_body
         = <<"W", "i", "k", "i", "W", "o", "r", "d">>

(* C14: versioned variant, every reachable state written by signed-in      *)
(* users holds at most one User profile per identity, also after two       *)
(* concurrent first Saves of one identity, and the author of every         *)
(* revision is a profile in the store.                                     *)
C14_OneProfilePerIdentity ==
  SignedInWritesOnly =>
    /\ \A u, w \in Keys(wikiUser) :
         u # w => wikiUser[u].wiki_user # wikiUser[w].wiki_user
    /\ \A v \in Keys(wikiRevision) : wikiRevision[v].author \in Keys(wikiUser)

VersionsOf(k) == {wikiRevision[v].version_number : v \in RevisionsOf(k)}

(* C18: versioned variant, in every reachable state, interleaved           *)
(* concurrent Saves included, the version numbers of the revisions of each *)
(* Page record are exactly 1..max, max the largest of them, and the        *)
(* revision the ORDER BY version_number DESC query resolves as current has *)
(* version number max.                                                     *)
C18_NoVersionGaps ==
  \A k \in Keys(wikiContent) :
    RevisionsOf(k) # {} =>
      LET max == CHOOSE m \in VersionsOf(k) : \A n \in VersionsOf(k) : n <= m
      IN /\ VersionsOf(k) = 1..max
         /\ QueryCurrentRevision(k) # {}
         /\ \A v \in QueryCurrentRevision(k) : wikiRevision[v].version_number = max

(* Interleaved Saves of signed-in users have left a page with three        *)
(* revisions numbered 1, 2 and 2.                                          *)
C18_Witness ==
  /\ SignedInWritesOnly
  /\ \E k \in Keys(wikiContent) :
       /\ Cardinality(RevisionsOf(k)) = 3
       /\ VersionsOf(k) = {1, 2}

(* C19: in both variants View and Edit are read-only for any title and     *)
(* any caller: no step of a View or Edit handler changes, creates or       *)
(* removes a Page, a Revision or a User profile.                           *)
C19_ViewAndEditReadOnly ==
  [][\A r \in Reqs :
       (request'[r].kind \in {"view", "edit"} /\ pc'[r] # pc[r])
         => store' = store]_vars

(* An Edit with nobody signed in has run to its end, edit form written, on *)
(* a store that holds a page of the title asked for.                       *)
C19_Witness ==
  \E r \in Reqs :
    /\ pc[r] = "done"
    /\ request[r].kind = "edit"
    /\ request[r].user = None
    /\ ~NoPage(request[r].title)
    /\ response[r].template = "edit.html"

(* C17: read-your-writes, both variants, requests served one after the     *)
(* other: a View of a title that follows a signed-in user's completed Save *)
(* of the title, no other Save of the title in between, answers with the   *)
(* result built from that Save: its body rendered, its user as author and, *)
(* in the versioned variant, the version number it created.  For every     *)
(* body, the empty one included.                                           *)
C17_ReadYourWrites ==
  \A r, l \in Reqs :
    ( /\ SignedInWritesOnly
      /\ r < l
      /\ request[r].user \in Identities
      /\ r \in CompletedSaves(request[r].title)
      /\ pc[l] = "done"
      /\ request[l].kind = "view"
      /\ request[l].title = request[r].title
      /\ \A m \in Reqs :
           (r < m /\ m < l) =>
             /\ pc[m] # "closed"
             /\ ~(request[m].kind = "save" /\ request[m].title = request[r].title) )
      => LET page == response[l].values.page
         IN /\ response[l].status = 200
            /\ response[l].template = "view.html"
            /\ page.author = Nickname(request[r].user)
            /\ page.body =
                 Markdown(WikiWordSub(request[r].body,
                                      IF app = "wiki_step1" THEN "\" >" ELSE "\">"))
            /\ app = "wiki_step2" =>
                 page.version = ToString(local[r].version_number)

(* The bodies a View of the title can render. *)
StoredBodies(t) ==
  IF app = "wiki_step1"
  THEN {wikiPage[k].body : k \in QueryPage(t)}
  ELSE {wikiRevision[v].revision_body :
          v \in UNION {QueryCurrentRevision(k) : k \in QueryContent(t)}}

(* Views that have answered for a title that has a page. *)
RenderedViews ==
  {r \in Reqs : /\ pc[r] = "done"
                /\ request[r].kind = "view"
                /\ response[r].status = 200
                /\ ~NoPage(request[r].title)}

AllIn(s, i, e, cls) == \A j \in i..e : s[j] \in cls

Contains(out, pat) ==
  \E j \in 1..(Len(out) - Len(pat) + 1) : SubSeq(out, j, j + Len(pat) - 1) = pat

(* out holds a hyperlink with target /view/<word> and visible text <word>. *)
IsLinked(out, word) ==
  \E close \in {"\">", "\" >"} :
    Contains(out, <<"<a href=\"/view/">> \o word \o <<close>> \o word \o <<"</a>">>)

Links(out) == {j \in 1..Len(out) : out[j] = "</a>"}

(* s[i..e] is a capital, lowercase letters, a capital and then characters  *)
(* of class tail, with no character of class inner right before or after.  *)
CamelCase(s, i, e, tail, inner) ==
  /\ 1 <= i /\ e <= Len(s)
  /\ s[i] \in Upper
  /\ \E l \in (i + 1)..(e - 2) :
       /\ AllIn(s, i + 1, l, Lower)
       /\ s[l + 1] \in Upper
       /\ AllIn(s, l + 2, e, tail)
  /\ i = 1 \/ s[i - 1] \notin inner
  /\ e = Len(s) \/ s[e + 1] \notin inner

(* C15 as stated: every token made of a capital, lowercase letters, a      *)
(* capital and then letters or digits, with no letter right before or      *)
(* after it, is replaced in the viewed body by a hyperlink to /view/<token>*)
(* that shows <token>.                                                     *)
C15_EveryWikiWordLinked ==
  \A r \in RenderedViews : \A s \in StoredBodies(request[r].title) :
    \A i, e \in 1..Len(s) :
      CamelCase(s, i, e, Letter \cup Digit, Letter)
        => IsLinked(response[r].values.page.body, SubSeq(s, i, e))

(* C15, amended: every token made of a capital, lowercase letters, a       *)
(* capital and then letters only, with no letter, digit or underscore      *)
(* right before or after it, is replaced in the viewed body by a hyperlink *)
(* to /view/<token> that shows <token>, and the body gets one hyperlink    *)
(* for each such token.                                                    *)
C15_EveryLetterWikiWordLinked ==
  \A r \in RenderedViews : \A s \in StoredBodies(request[r].title) :
    LET tokens == {p \in (1..Len(s)) \X (1..Len(s)) :
                     CamelCase(s, p[1], p[2], Letter, WordChar)}
        out == response[r].values.page.body
    IN /\ \A p \in tokens : IsLinked(out, SubSeq(s, p[1], p[2]))
       /\ Cardinality(Links(out)) = Cardinality(tokens)

(* A view has rendered a body that holds a wiki word between two commas. *)
C15_Witness ==
  \E r \in RenderedViews : \E s \in StoredBodies(request[r].title) :
    \E i, e \in 2..(Len(s) - 1) :
      /\ CamelCase(s, i, e, Letter, WordChar)
      /\ s[i - 1] = "," /\ s[e + 1] = ","
      /\ Links(response[r].values.page.body) # {}

(* s[i..e] is a whole run of letters that is all lowercase, all uppercase  *)
(* or one capital followed by lowercase letters only.                      *)
PlainWord(s, i, e) ==
  /\ 1 <= i /\ i <= e /\ e <= Len(s)
  /\ AllIn(s, i, e, Letter)
  /\ i = 1 \/ s[i - 1] \notin Letter
  /\ e = Len(s) \/ s[e + 1] \notin Letter
  /\ \/ AllIn(s, i, e, Lower)
     \/ AllIn(s, i, e, Upper)
     \/ AllIn(s, i + 1, e, Lower)

(* C16: a token that is all lowercase, all uppercase or a single           *)
(* capitalized word is never replaced by a hyperlink, whatever surrounds   *)
(* it: the viewed body holds no hyperlink for it, and no hyperlink at all  *)
(* when every run of letters of the stored body is such a token.           *)
C16_PlainWordsNotLinked ==
  \A r \in RenderedViews : \A s \in StoredBodies(request[r].title) :
    LET out == response[r].values.page.body
        runs == {p \in (1..Len(s)) \X (1..Len(s)) :
                   /\ p[1] <= p[2]
                   /\ AllIn(s, p[1], p[2], Letter)
                   /\ p[1] = 1 \/ s[p[1] - 1] \notin Letter
                   /\ p[2] = Len(s) \/ s[p[2] + 1] \notin Letter}
    IN /\ \A p \in runs :
            PlainWord(s, p[1], p[2]) => ~IsLinked(out, SubSeq(s, p[1], p[2]))
       /\ (\A p \in runs : PlainWord(s, p[1], p[2])) => Links(out) = {}

(* The single-revision wiki has rendered a body that holds a capitalized   *)
(* word of several letters with text before and after it.                  *)
C16_Witness ==
  \E r \in RenderedViews : \E s \in StoredBodies(request[r].title) :
    \E i, e \in 2..(Len(s) - 1) :
      /\ app = "wiki_step1"
      /\ i < e
      /\ PlainWord(s, i, e)
      /\ s[i] \in Upper
      /\ response[r].values.page.body = Markdown(s)

====
